---- MODULE Spec2Model ----
(***************************************************************************)
(* Model of EoswsConnector (src/src/client/connector.ts): the token        *)
(* lifecycle of one Connector instance on a JavaScript event loop.         *)
(*                                                                         *)
(* Every call of connect/getToken/refreshToken/disconnect/reconnect and    *)
(* every firing of the refresh timer is a task in a slot of Tasks.  The    *)
(* synchronous part of a call is one action; each resumption after an      *)
(* await is one action.  Time is in whole seconds, refresh delays are in   *)
(* hundredths of a second so that the factor 0.9 stays exact.              *)
(*                                                                         *)
(* Timers run only once the continuations that are ready have run.  The    *)
(* order in which ready continuations of different calls run, and how      *)
(* soon the client answers an exchange, are left open: they depend on the  *)
(* promise machinery the build targets and on the client, not on the       *)
(* Connector.                                                              *)
(***************************************************************************)
EXTENDS Integers, FiniteSets, Sequences, TLC

\* ---- bounds of the model ----
NumTasks == 2
MaxExchanges == 2
MaxTime == 2
MaxCalls == 2

\* ---- program constants ----
\* DEFAULT_DELAY_BUFFER_PERCENT = 0.9, in percent
DEFAULT_DELAY_BUFFER_PERCENT == 90
\* the literal 0.9 of getRefreshDelay, in percent
RefreshFactor == 90

Tasks == 1..NumTasks
ExchangeIds == 1..MaxExchanges

\* tokenStorage.get() on an empty store: undefined
Absent == [token |-> -1, expires_at |-> 0]
\* a token that was in the injected store before the Connector was built
OldToken(e) == [token |-> 0, expires_at |-> e]
\* lifetimes (seconds from the moment of the answer) the exchange may grant
Lifetimes == {0, 1}
\* the lifetimes left when the answers arrive late: the token is at or past
\* its expiry
LateLifetimes == {-1, 0}
\* values of params.delayBuffer, in percent; 0 stands for "not passed"
DelayBufferParams == {0, 50, 90}

NoTimer == [pending |-> FALSE, delay |-> 0, armedAt |-> 0]
NoExchange == [st |-> "none", tok |-> Absent]
\* a settled exchange that no task awaits any more
SpentExchange == [st |-> "spent", tok |-> Absent]
\* what a call has seen and done so far:
\*   snap     the store when the call was made
\*   stale    the store was empty or held a token with expires_at <= now then
\*   first    no getToken() had been entered on this Connector before
\*   pend     the exchanges the client had not answered when the call was made
\*   iss      the exchange the call made itself, 0 for none
\*   x        the answer of the exchange the call awaited
\*   nw       the call has written the store
\*   ncon     how often the call has invoked client.connect()
\*   foreign  another call has written the store since the call was made
NoOutcome == [id |-> 0, st |-> "none", tok |-> Absent]
NoHistory == [snap |-> Absent, stale |-> FALSE, first |-> FALSE, pend |-> {},
              iss |-> 0, x |-> NoOutcome, nw |-> 0, ncon |-> 0,
              foreign |-> FALSE]
NoEvent == [op |-> "init", task |-> 0, kind |-> "none", wrote |-> FALSE,
            armed |-> FALSE, issued |-> FALSE, tconn |-> FALSE,
            res |-> "-", ret |-> Absent, hist |-> NoHistory]

VARIABLES
  now,           \* Date.now() / 1000
  storage,       \* the TokenInfo held by tokenStorage, or Absent
  firstCall,     \* EoswsConnector.firstCall
  tokenPromise,  \* EoswsConnector.tokenPromise: 0 (undefined) or the exchange it wraps
  delayBuffer,   \* EoswsConnector.delayBuffer, in percent
  granted,       \* the lifetimes the token endpoint grants to this Connector
  timer,         \* the timer the RefreshScheduler armed last
  stray,         \* timers armed earlier, replaced, and pending all the same
  exch,          \* the client.getNewApiToken calls made so far and their outcome
  transport,     \* what the transport client did last
  pc,            \* where each task stands
  kind,          \* which operation each task runs
  aw,            \* the exchange a task awaits
  val,           \* the token a task carries across an await
  calls,         \* number of calls the application has made
  gtCalled,      \* history: getToken() has been entered before
  connected,     \* history: a connect() has succeeded before
  ev,            \* history: the effects of the last step
  h              \* history: per call bookkeeping

vars == <<now, storage, firstCall, tokenPromise, delayBuffer, granted, timer,
          stray, exch, transport, pc, kind, aw, val, calls, gtCalled,
          connected, ev, h>>

\* ------------------------------------------------------------------------
\* pure helpers of the Connector

\* constructor, line 45
ConfiguredDelayBuffer(param) ==
  IF param # 0 THEN param ELSE DEFAULT_DELAY_BUFFER_PERCENT

isExpiring_strict(tokenInfo) ==
  IF tokenInfo = Absent THEN TRUE ELSE tokenInfo.expires_at < now

\* isExpiring, lines 51-57
isExpiring(tokenInfo) ==
  IF tokenInfo = Absent THEN TRUE ELSE tokenInfo.expires_at <= now

getRefreshDelay_whole(tokenInfo) ==
  (tokenInfo.expires_at - now) * 100

\* getRefreshDelay, lines 59-62, in hundredths of a second
getRefreshDelay(tokenInfo) ==
  (tokenInfo.expires_at - now) * RefreshFactor

\* ------------------------------------------------------------------------
\* collaborators

\* RefreshScheduler.scheduleNextRefresh(delay): one timer, the new replaces the old
scheduleNextRefresh(delay) ==
  [pending |-> TRUE, delay |-> delay, armedAt |-> now]

replacedTimers_kept ==
  stray \cup (IF timer.pending THEN {timer} ELSE {})

\* RefreshScheduler.scheduleNextRefresh cancels the timer it armed before:
\* no replaced timer stays pending
replacedTimers == {}

\* the timer's delay has run out
TimerDue ==
  timer.pending /\ (now - timer.armedAt) * 100 >= timer.delay

\* all the timers that can still fire, and those whose delay has run out
PendingTimers == stray \cup (IF timer.pending THEN {timer} ELSE {})
DueTimers == {tm \in PendingTimers : (now - tm.armedAt) * 100 >= tm.delay}

\* exchanges whose answer the client has not delivered yet
PendingExchanges == {e \in ExchangeIds : exch[e].st = "pending"}
UsedExchanges == {e \in ExchangeIds : exch[e].st # "none"}
FreshExchange == Cardinality(UsedExchanges) + 1
Settled(e) == exch[e].st \in {"ok", "undef", "rejected"}

\* a task whose continuation sits in the microtask queue
Ready(t) ==
  \/ pc[t] \in {"g_cont", "c_cont"}
  \/ pc[t] = "fetch" /\ Settled(aw[t])

MicrotasksDrained == \A t \in Tasks : ~Ready(t)

\* ------------------------------------------------------------------------
\* history bookkeeping

\* a step of the environment
EnvEvent(op) ==
  [op |-> op, task |-> 0, kind |-> "none", wrote |-> FALSE, armed |-> FALSE,
   issued |-> FALSE, tconn |-> FALSE, res |-> "-", ret |-> Absent,
   hist |-> NoHistory]

\* a step of task t, running a call of kind k, that leaves the call under way
Event(op, k, t, wrote, armed, issued, hist) ==
  [op |-> op, task |-> t, kind |-> k, wrote |-> wrote, armed |-> armed,
   issued |-> issued, tconn |-> FALSE, res |-> "-", ret |-> Absent,
   hist |-> hist]

\* the step that ends the call of task t with result res and value ret
Completion(op, k, t, wrote, armed, res, ret, hist) ==
  [op |-> op, task |-> t, kind |-> k, wrote |-> wrote, armed |-> armed,
   issued |-> FALSE, tconn |-> FALSE, res |-> res, ret |-> ret, hist |-> hist]

\* the bookkeeping of a call that starts now
Entered(issuedId) ==
  [snap |-> storage,
   stale |-> storage = Absent \/ storage.expires_at <= now,
   first |-> ~gtCalled,
   pend |-> PendingExchanges, iss |-> issuedId, x |-> NoOutcome,
   nw |-> 0, ncon |-> 0, foreign |-> FALSE]

\* task t writes the store: the other calls under way see a foreign write
Wrote(t) ==
  [u \in Tasks |->
     IF u = t THEN [h[u] EXCEPT !.nw = 1]
     ELSE IF pc[u] # "idle" THEN [h[u] EXCEPT !.foreign = TRUE]
     ELSE h[u]]

\* task t is over
Finish(t) ==
  /\ pc' = [pc EXCEPT ![t] = "idle"]
  /\ kind' = [kind EXCEPT ![t] = "none"]
  /\ aw' = [aw EXCEPT ![t] = 0]
  /\ val' = [val EXCEPT ![t] = Absent]

\* ------------------------------------------------------------------------
\* the state after new EoswsConnector(params), lines 41-49, for the given
\* values of params.delayBuffer
Constructed(params, lifetimes) ==
  /\ now = 1
  /\ storage \in {Absent, OldToken(1), OldToken(2)}
  /\ firstCall = TRUE
  /\ tokenPromise = 0
  /\ delayBuffer \in {ConfiguredDelayBuffer(p) : p \in params}
  /\ granted = lifetimes
  /\ timer = NoTimer
  /\ stray = {}
  /\ exch = [e \in ExchangeIds |-> NoExchange]
  /\ transport = "fresh"
  /\ pc = [t \in Tasks |-> "idle"]
  /\ kind = [t \in Tasks |-> "none"]
  /\ aw = [t \in Tasks |-> 0]
  /\ val = [t \in Tasks |-> Absent]
  /\ calls = 0
  /\ gtCalled = FALSE
  /\ connected = FALSE
  /\ ev = NoEvent
  /\ h = [t \in Tasks |-> NoHistory]

\* a Connector built without params.delayBuffer
Init == Constructed({0}, Lifetimes)

\* a Connector built with any of the modelled values of params.delayBuffer
InitConfigured == Constructed(DelayBufferParams, Lifetimes)

\* a Connector whose token endpoint answers late
InitLate == Constructed({0}, LateLifetimes)

\* ------------------------------------------------------------------------
\* the synchronous part of the calls

\* the lowest free slot takes the next call
FreeSlot(t) ==
  /\ pc[t] = "idle"
  /\ \A u \in Tasks : u < t => pc[u] # "idle"

\* the application makes one more call
AppCall ==
  /\ calls < MaxCalls
  /\ calls' = calls + 1

fetchToken_always(t) ==
  /\ FreshExchange \in ExchangeIds
  /\ exch' = [exch EXCEPT ![FreshExchange] = [st |-> "pending", tok |-> Absent]]
  /\ tokenPromise' = FreshExchange
  /\ aw' = [aw EXCEPT ![t] = FreshExchange]

\* fetchToken, lines 113-130: hand out the pending promise, or call
\* client.getNewApiToken and remember the promise that wraps it
fetchToken(t) ==
  IF tokenPromise # 0
  THEN /\ aw' = [aw EXCEPT ![t] = tokenPromise]
       /\ UNCHANGED <<tokenPromise, exch>>
  ELSE /\ FreshExchange \in ExchangeIds
       /\ exch' = [exch EXCEPT ![FreshExchange] = [st |-> "pending", tok |-> Absent]]
       /\ tokenPromise' = FreshExchange
       /\ aw' = [aw EXCEPT ![t] = FreshExchange]

\* the exchange this step called, 0 when it called none
IssuedNow == IF exch' # exch THEN tokenPromise' ELSE 0

firstCallAfterExpired_kept == firstCall

\* line 85
firstCallAfterExpired == FALSE

\* getToken up to its first await or its return, lines 82-97;
\* k is "connect" when connect() made the call (line 65)
getTokenBody(t, k) ==
  /\ gtCalled' = TRUE
  /\ IF isExpiring(storage)
     THEN /\ firstCall' = firstCallAfterExpired
          /\ fetchToken(t)
          /\ pc' = [pc EXCEPT ![t] = "fetch"]
          /\ kind' = [kind EXCEPT ![t] = k]
          /\ h' = [h EXCEPT ![t] = Entered(IssuedNow)]
          /\ ev' = Event(k, k, t, FALSE, FALSE, exch' # exch, Entered(IssuedNow))
          /\ UNCHANGED <<timer, stray, val>>
     ELSE /\ timer' = IF firstCall
                      THEN scheduleNextRefresh(getRefreshDelay(storage))
                      ELSE timer
          /\ stray' = IF firstCall THEN replacedTimers ELSE stray
          /\ firstCall' = FALSE
          /\ IF k = "connect"
             THEN /\ val' = [val EXCEPT ![t] = storage]
                  /\ pc' = [pc EXCEPT ![t] = "c_cont"]
                  /\ kind' = [kind EXCEPT ![t] = k]
                  /\ h' = [h EXCEPT ![t] = Entered(0)]
                  /\ ev' = Event(k, k, t, FALSE, firstCall, FALSE, Entered(0))
             ELSE /\ ev' = Completion(k, k, t, FALSE, firstCall, "ok", storage,
                                      Entered(0))
                  /\ UNCHANGED <<val, pc, kind, h>>
          /\ UNCHANGED <<tokenPromise, exch, aw>>
  /\ UNCHANGED <<now, storage, delayBuffer, granted, transport, connected>>

\* connect(), line 65
connect(t) ==
  /\ FreeSlot(t)
  /\ AppCall
  /\ getTokenBody(t, "connect")

\* getToken() called by the application
getToken(t) ==
  /\ FreeSlot(t)
  /\ AppCall
  /\ getTokenBody(t, "getToken")

\* refreshToken up to its await, line 101;
\* k is "timer" when the RefreshScheduler made the call (line 48), and op
\* then tells whether the timer that fired was the one armed last
refreshTokenBody(t, k, op) ==
  /\ kind' = [kind EXCEPT ![t] = k]
  /\ fetchToken(t)
  /\ pc' = [pc EXCEPT ![t] = "fetch"]
  /\ h' = [h EXCEPT ![t] = Entered(IssuedNow)]
  /\ ev' = Event(op, k, t, FALSE, FALSE, exch' # exch, Entered(IssuedNow))
  /\ UNCHANGED <<now, storage, firstCall, delayBuffer, granted, transport, val, gtCalled, connected>>

\* refreshToken() called by the application
refreshToken(t) ==
  /\ FreeSlot(t)
  /\ AppCall
  /\ refreshTokenBody(t, "refreshToken", "refreshToken")
  /\ UNCHANGED <<timer, stray>>

\* the armed timer fires and runs the scheduler's callback (line 48); timers
\* are macrotasks, they run once the microtask queue is empty
TimerFire(t) ==
  /\ MicrotasksDrained
  /\ FreeSlot(t)
  /\ \E tm \in DueTimers :
       IF tm = timer /\ TimerDue
       THEN /\ timer' = NoTimer
            /\ refreshTokenBody(t, "timer", "timer")
            /\ UNCHANGED stray
       ELSE /\ stray' = stray \ {tm}
            /\ refreshTokenBody(t, "timer", "strayTimer")
            /\ UNCHANGED timer
  /\ UNCHANGED calls

disconnect_cancelling(t) ==
  /\ FreeSlot(t)
  /\ AppCall
  /\ transport' = "disconnected"
  /\ timer' = NoTimer
  /\ ev' = Completion("disconnect", "disconnect", t, FALSE, FALSE, "ok", Absent,
                      Entered(0))
  /\ UNCHANGED <<now, storage, firstCall, tokenPromise, delayBuffer, granted, exch,
                 stray, pc, kind, aw, val, gtCalled, connected, h>>

\* disconnect(), lines 77-79: client.disconnect() and its await, after which
\* the call only returns
disconnect(t) ==
  /\ FreeSlot(t)
  /\ AppCall
  /\ transport' = "disconnected"
  /\ ev' = Completion("disconnect", "disconnect", t, FALSE, FALSE, "ok", Absent,
                      Entered(0))
  /\ UNCHANGED <<now, storage, firstCall, tokenPromise, delayBuffer, granted, timer,
                 stray, exch, pc, kind, aw, val, gtCalled, connected, h>>

reconnect_rearming(t) ==
  /\ FreeSlot(t)
  /\ AppCall
  /\ transport' = "connected"
  /\ timer' = IF isExpiring(storage) THEN timer
              ELSE scheduleNextRefresh(getRefreshDelay(storage))
  /\ ev' = Completion("reconnect", "reconnect", t, FALSE, FALSE, "ok", Absent,
                      Entered(0))
  /\ UNCHANGED <<now, storage, firstCall, tokenPromise, delayBuffer, granted, exch,
                 stray, pc, kind, aw, val, gtCalled, connected, h>>

\* reconnect(), lines 73-75: client.reconnect() and its await, after which
\* the call only returns
reconnect(t) ==
  /\ FreeSlot(t)
  /\ AppCall
  /\ transport' = "connected"
  /\ ev' = Completion("reconnect", "reconnect", t, FALSE, FALSE, "ok", Absent,
                      Entered(0))
  /\ UNCHANGED <<now, storage, firstCall, tokenPromise, delayBuffer, granted, timer,
                 stray, exch, pc, kind, aw, val, gtCalled, connected, h>>

\* ------------------------------------------------------------------------
\* the client answers

tokenPromiseAfterSettle_successOnly(st) == IF st = "ok" THEN 0 ELSE tokenPromise

\* the .then and .catch callbacks of fetchToken, lines 121 and 125
tokenPromiseAfterSettle(st) == 0

\* client.getNewApiToken settles: with a token, with nothing, or by rejecting
ExchangeSettle(e) ==
  /\ exch[e].st = "pending"
  /\ \E st \in {"ok", "undef", "rejected"} :
       /\ \E life \in (IF st = "ok" THEN granted ELSE {0}) :
            /\ exch' = [exch EXCEPT ![e] =
                 [st |-> st,
                  tok |-> IF st = "ok"
                          THEN [token |-> e, expires_at |-> now + life]
                          ELSE Absent]]
       /\ tokenPromise' = tokenPromiseAfterSettle(st)
  /\ ev' = EnvEvent("settle")
  /\ UNCHANGED <<now, storage, firstCall, delayBuffer, granted, timer, stray,
                 transport, pc, kind, aw, val, calls, gtCalled, connected, h>>

\* ------------------------------------------------------------------------
\* the resumptions after an await

refreshThrows_onRejectOnly(st) == st = "rejected"

\* the await of line 101 throws when the exchange rejected; line 103 sends
\* an exchange that returned nothing to the throw of line 109
refreshThrows(st) == st # "ok"

timerAfterRefresh_never(tokenInfo) == timer

timerAfterRefresh_skipping(tokenInfo) ==
  IF getRefreshDelay(tokenInfo) <= 0
  THEN timer
  ELSE scheduleNextRefresh(getRefreshDelay(tokenInfo))

\* line 106: whatever the delay comes to
timerAfterRefresh(tokenInfo) ==
  scheduleNextRefresh(getRefreshDelay(tokenInfo))

timerAfterFailure_retrying == scheduleNextRefresh(0)

\* lines 101-109: the throw leaves refreshToken without reaching line 106
timerAfterFailure == timer

\* line 48: the callback hands the promise of refreshToken() to the
\* scheduler as it is, with no catch on it
callbackCatches == FALSE

\* RefreshScheduler fires and forgets: it neither awaits nor tracks what
\* the callback returns
schedulerCatches == FALSE

\* the outcome of exchange e is dropped once its last awaiter has resumed
Consumed(t) ==
  IF \E u \in Tasks \ {t} : pc[u] = "fetch" /\ aw[u] = aw[t]
  THEN exch
  ELSE [exch EXCEPT ![aw[t]] = SpentExchange]

\* the history of task t once it has seen the answer of the exchange it awaits
Answered(hh, t) ==
  [hh EXCEPT ![t].x = [id |-> aw[t], st |-> exch[aw[t]].st, tok |-> exch[aw[t]].tok]]

\* refreshToken after its await, lines 103-109; a throw travels up through
\* getToken and connect, which have no handler
refreshTokenResume(t) ==
  /\ pc[t] = "fetch"
  /\ Settled(aw[t])
  /\ exch' = Consumed(t)
  /\ IF refreshThrows(exch[aw[t]].st)
     THEN /\ Finish(t)
          /\ h' = [h EXCEPT ![t] = NoHistory]
          /\ ev' = Completion("refreshResume", kind[t], t, FALSE, FALSE,
                              "failed", Absent, Answered(h, t)[t])
          /\ timer' = timerAfterFailure
          /\ UNCHANGED <<storage, stray>>
     ELSE /\ storage' = exch[aw[t]].tok
          /\ timer' = timerAfterRefresh(exch[aw[t]].tok)
          /\ stray' = replacedTimers
          /\ IF kind[t] \in {"connect", "getToken"}
             THEN /\ val' = [val EXCEPT ![t] = exch[aw[t]].tok]
                  /\ pc' = [pc EXCEPT ![t] = "g_cont"]
                  /\ aw' = [aw EXCEPT ![t] = 0]
                  /\ h' = Answered(Wrote(t), t)
                  /\ ev' = Event("refreshResume", kind[t], t, TRUE, TRUE, FALSE,
                                 Answered(Wrote(t), t)[t])
                  /\ UNCHANGED kind
             ELSE /\ Finish(t)
                  /\ h' = [Wrote(t) EXCEPT ![t] = NoHistory]
                  /\ ev' = Completion("refreshResume", kind[t], t, TRUE, TRUE,
                                      "ok", exch[aw[t]].tok,
                                      Answered(Wrote(t), t)[t])
  /\ UNCHANGED <<now, firstCall, tokenPromise, delayBuffer, granted, transport, calls,
                 gtCalled, connected>>

\* getToken after awaiting refreshToken, lines 87-88
getTokenResume(t) ==
  /\ pc[t] = "g_cont"
  /\ storage' = val[t]
  /\ IF kind[t] = "connect"
     THEN /\ pc' = [pc EXCEPT ![t] = "c_cont"]
          /\ h' = Wrote(t)
          /\ ev' = Event("getTokenResume", kind[t], t, TRUE, FALSE, FALSE,
                         Wrote(t)[t])
          /\ UNCHANGED <<kind, aw, val>>
     ELSE /\ Finish(t)
          /\ h' = [Wrote(t) EXCEPT ![t] = NoHistory]
          /\ ev' = Completion("getTokenResume", kind[t], t, TRUE, FALSE, "ok",
                              val[t], Wrote(t)[t])
  /\ UNCHANGED <<now, firstCall, tokenPromise, delayBuffer, granted, timer, stray,
                 exch, transport, calls, gtCalled, connected>>

\* connect after awaiting getToken, lines 66-70: store the token and call
\* client.connect(), after whose await the call only returns; or throw
connectResume(t) ==
  /\ pc[t] = "c_cont"
  /\ Finish(t)
  /\ h' = [Wrote(t) EXCEPT ![t] = NoHistory]
  /\ IF val[t] # Absent
     THEN /\ storage' = val[t]
          /\ transport' = "connected"
          /\ connected' = TRUE
          /\ ev' = [Completion("connectResume", kind[t], t, TRUE, FALSE, "ok",
                               val[t], [Wrote(t)[t] EXCEPT !.ncon = @ + 1])
                      EXCEPT !.tconn = TRUE]
     ELSE /\ ev' = Completion("connectResume", kind[t], t, FALSE, FALSE,
                              "failed", Absent, h[t])
          /\ UNCHANGED <<storage, transport, connected>>
  /\ UNCHANGED <<now, firstCall, tokenPromise, delayBuffer, granted, timer, stray,
                 exch, calls, gtCalled>>

\* a second passes; the continuations that are ready run within the
\* current turn of the event loop, before the clock moves on
Tick ==
  /\ now < MaxTime
  /\ MicrotasksDrained
  /\ now' = now + 1
  /\ ev' = EnvEvent("tick")
  /\ UNCHANGED <<storage, firstCall, tokenPromise, delayBuffer, granted, timer, stray,
                 exch, transport, pc, kind, aw, val, calls, gtCalled, connected, h>>

Next ==
  \/ \E t \in Tasks : connect(t)
  \/ \E t \in Tasks : getToken(t)
  \/ \E t \in Tasks : refreshToken(t)
  \/ \E t \in Tasks : TimerFire(t)
  \/ \E t \in Tasks : disconnect(t)
  \/ \E t \in Tasks : reconnect(t)
  \/ \E e \in ExchangeIds : ExchangeSettle(e)
  \/ \E t \in Tasks : refreshTokenResume(t)
  \/ \E t \in Tasks : getTokenResume(t)
  \/ \E t \in Tasks : connectResume(t)
  \/ Tick

Spec == Init /\ [][Next]_vars

SpecConfigured == InitConfigured /\ [][Next]_vars
SpecLate == InitLate /\ [][Next]_vars

\* the event loop runs every continuation that is ready, the client answers
\* every exchange, time passes and a timer whose delay has run out fires;
\* nothing obliges the application to call
EventLoopRuns ==
  /\ WF_vars(Tick)
  /\ \A t \in Tasks : WF_vars(TimerFire(t))
  /\ \A e \in ExchangeIds : WF_vars(ExchangeSettle(e))
  /\ \A t \in Tasks : WF_vars(refreshTokenResume(t))
  /\ \A t \in Tasks : WF_vars(getTokenResume(t))
  /\ \A t \in Tasks : WF_vars(connectResume(t))

SpecLive == Init /\ [][Next]_vars /\ EventLoopRuns

TypeOK ==
  /\ now \in 1..MaxTime
  /\ firstCall \in BOOLEAN
  /\ granted \in {Lifetimes, LateLifetimes}
  /\ tokenPromise \in 0..MaxExchanges
  /\ timer.pending \in BOOLEAN
  /\ pc \in [Tasks -> {"idle", "fetch", "g_cont", "c_cont"}]


\* ------------------------------------------------------------------------
\* the properties

\* the last step ended a call of kind k
Ended(k) == ev.kind = k /\ ev.res \in {"ok", "failed"}

\* C1: a connect() whose token exchange rejects or returns nothing fails,
\* never invokes client.connect(), writes nothing to the Token Store, and
\* (unless another call wrote it meanwhile) leaves in the store exactly
\* what it held when the call was made.
C1_FailedExchangeFailsConnect ==
  (Ended("connect") /\ ev.hist.x.st \in {"rejected", "undef"}) =>
     /\ ev.res = "failed"
     /\ ~ev.tconn
     /\ ev.hist.ncon = 0
     /\ ~ev.wrote
     /\ ev.hist.nw = 0
     /\ (~ev.hist.foreign => storage = ev.hist.snap)

\* a connect() made on a store holding an expired token has failed on a
\* rejected exchange, and the store still holds that token
C1_Witness ==
  /\ Ended("connect")
  /\ ev.res = "failed"
  /\ ev.hist.x.st = "rejected"
  /\ ev.hist.snap = OldToken(1)
  /\ storage = OldToken(1)

C3_ConnectsWithValidToken ==
  ev.tconn => (storage # Absent /\ storage.expires_at > now)

\* C4: at most one client.getNewApiToken call is in flight.
C4_OneExchangeInFlight ==
  Cardinality(PendingExchanges) <= 1

\* two calls await the one exchange in flight
C4_Witness ==
  /\ Cardinality(PendingExchanges) = 1
  /\ \E t, u \in Tasks :
       /\ t # u
       /\ pc[t] = "fetch" /\ pc[u] = "fetch"
       /\ aw[t] = aw[u] /\ aw[t] \in PendingExchanges

\* the one exchange a refreshToken() call with this history must be served by
ServedBy(hist) ==
  IF hist.pend # {} THEN hist.pend ELSE {hist.iss}

\* C5: refreshToken() calls made while an exchange is outstanding make no
\* exchange call of their own; they and the call that made the exchange all
\* end with the outcome of that one exchange: its token, or a failure.
C5_ConcurrentRefreshShareOneExchange ==
  /\ \A t \in Tasks :
       (pc[t] = "fetch" /\ kind[t] \in {"refreshToken", "timer"}) =>
          /\ h[t].pend # {} => h[t].iss = 0
          /\ aw[t] \in ServedBy(h[t])
          /\ Cardinality(ServedBy(h[t])) = 1
  /\ (Ended("refreshToken") \/ Ended("timer")) =>
          /\ ev.hist.pend # {} => ev.hist.iss = 0
          /\ ev.hist.x.id \in ServedBy(ev.hist)
          /\ (ev.res = "ok") = (ev.hist.x.st = "ok")
          /\ ev.res = "ok" =>
               /\ ev.ret = ev.hist.x.tok
               /\ ev.ret.token = ev.hist.x.id

\* a refreshToken() made while exchange 1 was outstanding has returned the
\* token of exchange 1, and the other call still awaits that exchange
C5_Witness ==
  /\ Ended("refreshToken")
  /\ ev.res = "ok"
  /\ ev.hist.pend = {1}
  /\ ev.ret.token = 1
  /\ \E u \in Tasks : pc[u] = "fetch" /\ aw[u] = 1 /\ kind[u] = "refreshToken"

\* C6: tokenPromise is set only while its exchange is unanswered, so a
\* refreshToken() made when no exchange is outstanding makes a new one.
C6_PromiseClearedOnCompletion ==
  /\ tokenPromise # 0 => exch[tokenPromise].st = "pending"
  /\ \A t \in Tasks :
       (pc[t] = "fetch" /\ kind[t] \in {"refreshToken", "timer"}
          /\ h[t].pend = {}) =>
            /\ h[t].iss # 0
            /\ aw[t] = h[t].iss

\* exchange 1 was rejected, and a refreshToken() made after that has made
\* exchange 2
C6_Witness ==
  /\ exch[1].st = "rejected"
  /\ ev.op = "refreshToken"
  /\ ev.hist.iss = 2
  /\ tokenPromise = 2

\* C7: a getToken() made on an empty store or on a token with
\* expires_at <= now, whose exchange succeeds, returns the token of that
\* exchange, which is not the old one; the store then holds it and the
\* timer is armed.
C7_StaleTokenIsRefetched ==
  (Ended("getToken") /\ ev.hist.stale /\ ev.res = "ok") =>
     /\ ev.hist.x.st = "ok"
     /\ ev.ret = ev.hist.x.tok
     /\ ev.ret # ev.hist.snap
     /\ storage = ev.ret
     /\ timer.pending

\* a getToken() made on the expired old token has returned a new token
C7_Witness ==
  /\ Ended("getToken")
  /\ ev.res = "ok"
  /\ ev.hist.snap = OldToken(1)
  /\ ev.ret.token = 1
  /\ storage = ev.ret
  /\ timer.pending

\* C8: getToken() (also when connect() calls it) on a stored token that is
\* not expiring makes no exchange and writes nothing, hands back the stored
\* token, and arms the timer exactly when no getToken() was entered before.
C8_FreshTokenReturnedAsIs ==
  (ev.op \in {"getToken", "connect"} /\ ~ev.hist.stale) =>
     /\ ~ev.issued
     /\ ev.hist.iss = 0
     /\ ~ev.wrote
     /\ storage = ev.hist.snap
     /\ ev.armed = ev.hist.first
     /\ ev.op = "getToken" => (ev.res = "ok" /\ ev.ret = ev.hist.snap)
     /\ ev.op = "connect" => val[ev.task] = ev.hist.snap

\* a getToken() that was not the first has returned the stored, still
\* valid token and armed nothing
C8_Witness ==
  /\ ev.op = "getToken"
  /\ ev.res = "ok"
  /\ ~ev.hist.stale
  /\ ~ev.hist.first
  /\ ~ev.armed
  /\ ev.ret = storage

\* C9: every timer the Connector arms has
\* delay = (expires_at - now) * delayBuffer, delayBuffer being the
\* configured value, or 0.9 when none was passed.
C9_DelayUsesConfiguredBuffer ==
  ev.armed =>
     /\ timer.pending
     /\ timer.delay = (storage.expires_at - timer.armedAt) * delayBuffer

\* C10: disconnect() asks the transport to disconnect and changes nothing
\* else: not the timer, the store, the first-call flag, the pending fetch
\* or any call under way.
C10_DisconnectLeavesRefreshAlone ==
  [][ev'.op = "disconnect" =>
       /\ transport' = "disconnected"
       /\ UNCHANGED <<timer, storage, firstCall, tokenPromise, exch, pc, aw, val>>
    ]_vars

\* while the transport is disconnected the timer has fired and its
\* refresh has stored a new token
C10_Witness ==
  /\ transport = "disconnected"
  /\ Ended("timer")
  /\ ev.res = "ok"
  /\ ev.wrote
  /\ storage = ev.ret


\* C11: reconnect() asks the transport to reconnect and does nothing else,
\* whatever the store holds: it makes no exchange, leaves the store, the
\* first-call flag, the pending fetch and the timer as they are, and
\* starts no await of its own.
C11_ReconnectOnlyDelegates ==
  [][ev'.op = "reconnect" =>
       /\ transport' = "connected"
       /\ ~ev'.issued /\ ~ev'.wrote /\ ~ev'.armed
       /\ UNCHANGED <<timer, storage, firstCall, tokenPromise, exch, pc, aw,
                      val, gtCalled, connected>>
    ]_vars

\* the second of two calls was a reconnect() on a still valid stored token;
\* no getToken() or refreshToken() was ever made (the first call was a
\* disconnect() or a reconnect()), and no exchange has been made
C11_Witness ==
  /\ ev.op = "reconnect"
  /\ calls = 2
  /\ transport = "connected"
  /\ storage = OldToken(2)
  /\ now < storage.expires_at
  /\ UsedExchanges = {}
  /\ ~gtCalled
  /\ ~timer.pending


\* C12: at most one refresh timer is pending, and the timer that fires is
\* always the one armed last: a timer that was replaced never fires.
C12_OneTimerPending ==
  /\ Cardinality(PendingTimers) <= 1
  /\ ev.op # "strayTimer"

\* a refreshToken() that shared its exchange with another call has armed
\* the timer after that other call had armed it for the same token: one
\* timer is pending
C12_Witness ==
  /\ ev.op = "refreshResume"
  /\ ev.armed
  /\ ev.hist.pend # {}
  /\ ev.hist.foreign
  /\ storage = ev.hist.x.tok
  /\ PendingTimers = {timer}


\* the refresh the timer started has failed and nothing handles the
\* rejected promise: the runtime reports an unhandled rejection, which
\* ends the process where that is the runtime's policy
UnhandledRejection ==
  /\ ev.kind = "timer"
  /\ ev.res = "failed"
  /\ ~callbackCatches
  /\ ~schedulerCatches

\* C13: the failure of a refresh started by the timer is caught: it never
\* leaves the scheduler's callback as an unhandled rejection.
C13_TimerFailureIsCaught ==
  ~UnhandledRejection

\* C14: only the entry of connect(), getToken() or refreshToken() and the
\* firing of a timer make a token exchange; the step in which a call fails
\* makes none, arms no timer, cancels none and leaves every other call
\* where it was.
C14_NoRetryOfItsOwn ==
  [][/\ UsedExchanges' # UsedExchanges =>
          ev'.op \in {"connect", "getToken", "refreshToken", "timer"}
     /\ ev'.res = "failed" =>
          /\ UsedExchanges' = UsedExchanges
          /\ PendingExchanges' = PendingExchanges
          /\ tokenPromise' = tokenPromise
          /\ PendingTimers' = PendingTimers
          /\ \A t \in Tasks : pc'[t] = "fetch" => pc[t] = "fetch"
    ]_vars

\* a refreshToken() has failed on a rejected exchange; no exchange and no
\* timer is pending, so nothing happens until the application calls again
C14_Witness ==
  /\ Ended("refreshToken")
  /\ ev.res = "failed"
  /\ ev.hist.x.st = "rejected"
  /\ PendingExchanges = {}
  /\ PendingTimers = {}
  /\ tokenPromise = 0
  /\ \A t \in Tasks : pc[t] = "idle"

\* the tokens isExpiring is tried on
TokenInputs ==
  {Absent} \cup
  {[token |-> k, expires_at |-> e] : k \in 0..MaxExchanges, e \in 0..(MaxTime + 1)}

\* C15: isExpiring(t) is true exactly when t is absent or
\* t.expires_at <= now; getToken() takes its refresh path exactly then.
C15_IsExpiring ==
  /\ \A tok \in TokenInputs :
       isExpiring(tok) = (tok = Absent \/ ~(tok.expires_at > now))
  /\ (ev.op \in {"connect", "getToken"}) =>
       ((pc[ev.task] = "fetch") = ev.hist.stale)

\* getToken() has found a token with expires_at = now in the store and has
\* gone to refresh it
C15_Witness ==
  /\ ev.op = "getToken"
  /\ ev.hist.snap = OldToken(1)
  /\ now = 1
  /\ isExpiring(ev.hist.snap)
  /\ pc[ev.task] = "fetch"

\* the refresh callback has just been started by the timer
TimerFired == ev.op = "timer"

\* the refresh the timer started has stored its token and re-armed the timer
TimerRenewed ==
  /\ ev.op = "refreshResume"
  /\ ev.kind = "timer"
  /\ ev.res = "ok"
  /\ storage = ev.ret
  /\ storage.token = ev.hist.x.id
  /\ timer.pending

\* the exchange that a refresh started by the timer awaits has rejected or
\* returned nothing
TimerExchangeFailed ==
  \E t \in Tasks :
    /\ kind[t] = "timer"
    /\ pc[t] = "fetch"
    /\ exch[aw[t]].st \in {"rejected", "undef"}

\* C16: with timers that fire when due, every refresh the timer starts
\* whose exchange does not fail fetches a token, stores it and arms the
\* timer again, whatever connect(), disconnect(), reconnect() and other
\* calls happen meanwhile: each round ends with the timer armed for the
\* next one.
C16_RefreshCycleGoesOn ==
  TimerFired ~> (TimerRenewed \/ TimerExchangeFailed)

\* a second round: the timer armed by a refresh has fired, and the refresh
\* it started has stored the token of the second exchange and re-armed,
\* on a transport that was connected and disconnected meanwhile
C16_Witness ==
  /\ TimerRenewed
  /\ storage.token = 2
  /\ transport = "disconnected"

\* C17: every refreshToken() that succeeds arms the scheduler with the delay
\* it computed, at the moment it stores the token, also when that delay is
\* zero or negative; a timer armed with such a delay is due at once, with
\* no second passing.
C17_RefreshAlwaysArms ==
  /\ (ev.op = "refreshResume" /\ ev.res # "failed") =>
       /\ storage = ev.hist.x.tok
       /\ timer = scheduleNextRefresh(getRefreshDelay(storage))
       /\ (getRefreshDelay(storage) <= 0 => timer \in DueTimers)
  /\ \A life \in LateLifetimes :
       LET tokenInfo == [token |-> 1, expires_at |-> now + life]
           armedNow == timerAfterRefresh(tokenInfo)
       IN  /\ armedNow.pending
           /\ armedNow.delay <= 0
           /\ (now - armedNow.armedAt) * 100 >= armedNow.delay

\* the callback has fired twice within one second: the first refresh stored
\* a token that expired as it arrived and armed the timer with delay 0, the
\* timer fired at once, and the second refresh has stored a token already
\* expired and armed the timer with a negative delay
C17_Witness ==
  /\ ev.op = "refreshResume"
  /\ ev.kind = "timer"
  /\ ev.res = "ok"
  /\ ev.hist.snap.token >= 1
  /\ ev.hist.snap.expires_at = now
  /\ storage.expires_at < now
  /\ timer.pending
  /\ timer.delay < 0
  /\ timer \in DueTimers

\* background renewal is alive: a timer is armed, an exchange is in flight,
\* or a continuation that will store and arm is about to run
RenewalGoesOn ==
  \/ timer.pending
  \/ PendingExchanges # {}
  \/ \E t \in Tasks : Ready(t)

\* C18: once a connect() has succeeded, a timer is armed or a token exchange
\* is in flight in every later state (the turn of the event loop in which
\* an answered exchange is being stored counts as in flight), also after a
\* refresh started by the timer has failed.
C18_RenewalNeverStops ==
  connected => RenewalGoesOn

\* C19: the writes of the awaited token that getToken() and connect() make
\* after refreshToken() has stored it never put an older token (one of an
\* earlier exchange) over a newer one.
C19_StoreNeverGoesBack ==
  [][ev'.op \in {"getTokenResume", "connectResume"} =>
       storage'.token >= storage.token]_vars

\* C20: the step in which a refreshToken(), called or started by the timer,
\* learns that its exchange rejected or returned nothing ends the call as
\* failed, leaves the store and every timer as they were, and its exchange
\* is no longer in flight nor remembered as the pending promise.
C20_FailedRefreshChangesNothing ==
  [][(/\ ev'.op = "refreshResume"
      /\ ev'.kind \in {"refreshToken", "timer"}
      /\ ev'.hist.x.st \in {"rejected", "undef"}) =>
       /\ ev'.res = "failed"
       /\ storage' = storage
       /\ timer' = timer
       /\ PendingTimers' = PendingTimers
       /\ ev'.hist.x.id \notin PendingExchanges'
       /\ tokenPromise' # ev'.hist.x.id
       /\ tokenPromise' = tokenPromise
    ]_vars

\* a refreshToken() called while a timer was armed has failed on an
\* exchange that returned nothing: the store holds what it held when the
\* call was made, the timer is still armed and no fetch is in flight
C20_Witness ==
  /\ Ended("refreshToken")
  /\ ev.res = "failed"
  /\ ev.hist.x.st = "undef"
  /\ ~ev.hist.foreign
  /\ storage = ev.hist.snap
  /\ storage # Absent
  /\ timer.pending
  /\ PendingExchanges = {}
  /\ tokenPromise = 0

====
